---- MODULE Spec2Model ----
(***************************************************************************)
(* Model of sage/features/latex.py: the capability probes for the LaTeX    *)
(* toolchain (latex, pdflatex, xelatex, lualatex), for TeX files located   *)
(* through kpsewhich, and for LaTeX packages.                              *)
(*                                                                         *)
(* Text is modelled as a sequence of tokens (a token is a character or a   *)
(* fixed piece of text), so that string concatenation is \o and the        *)
(* character replacement of LaTeXPackage is a map over the tokens.         *)
(*                                                                         *)
(* An optional value (Python's None or a value) is a set with at most one  *)
(* element.                                                                *)
(***************************************************************************)
EXTENDS Integers, Sequences, FiniteSets, TLC

VARIABLES
    path,       \* the executables found on the search path (external)
    texmf,      \* the file names kpsewhich resolves (external)
    kpseCrash,  \* whether kpsewhich ends abnormally, killed by a signal (external)
    kpseBytes,  \* whether kpsewhich writes bytes the locale's encoding cannot decode (external)
    cache,      \* the probe cache: probe name -> optional FeatureTestResult
    tmpfiles,   \* the scratch files that exist (numbered)
    last,       \* the most recent call and what it did, Idle after an environment change
    thr,        \* what each thread of a concurrent client is doing
    finished    \* the evaluations finished by threads: the probe and its complete result

vars == <<path, texmf, kpseCrash, kpseBytes, cache, tmpfiles, last, thr, finished>>

(***************************************************************************)
(* Bounds of the model.                                                    *)
(***************************************************************************)
\* exit statuses a LaTeX program that is found may end with: 0..MaxExit
MaxExit == 1
\* number of scratch files the model lets exist
MaxTmp == 1
\* number of functional checks the threads of a concurrent client start
MaxChecks == 2

None == {}
Some(x) == {x}
TheValue(s) == CHOOSE x \in s : TRUE

(***************************************************************************)
(* Text helpers.                                                           *)
(***************************************************************************)
\* str.replace(old, new) for single characters
RECURSIVE replace(_, _, _)
replace(s, old, new) ==
    IF s = <<>> THEN <<>>
    ELSE <<IF Head(s) = old THEN new ELSE Head(s)>> \o replace(Tail(s), old, new)

\* repr() of a str without quotes in it
repr(s) == <<"'">> \o s \o <<"'">>

Whitespace == {" ", "\n", "\t"}

RECURSIVE lstrip(_)
lstrip(s) ==
    IF s # <<>> /\ Head(s) \in Whitespace THEN lstrip(Tail(s)) ELSE s

RECURSIVE rstrip(_)
rstrip(s) ==
    IF s # <<>> /\ s[Len(s)] \in Whitespace THEN rstrip(SubSeq(s, 1, Len(s) - 1)) ELSE s

\* str.strip()
strip(s) == rstrip(lstrip(s))

\* whether text t holds the tokens of w in a row
Contains(t, w) ==
    \E i \in 1..(Len(t) + 1) :
        /\ i + Len(w) - 1 <= Len(t)
        /\ SubSeq(t, i, i + Len(w) - 1) = w

\* str(n) for an exit status
str(n) == IF n < 0 THEN <<"-", ToString(-n)>> ELSE <<ToString(n)>>

\* os.path.split: the text before the last "/" and the text after it
LastSlash(p) ==
    LET S == {i \in 1..Len(p) : p[i] = "/"}
    IN  IF S = {} THEN 0 ELSE CHOOSE i \in S : \A j \in S : j <= i
os_path_split(p) ==
    LET i == LastSlash(p)
    IN  <<SubSeq(p, 1, i - 1), SubSeq(p, i + 1, Len(p))>>

(***************************************************************************)
(* The probes (features).                                                  *)
(***************************************************************************)
latex_url == <<"https://www.latex-project.org/">>
latex_spkg == <<"texlive">>

\* Executable.__init__ as LaTeX.__init__ calls it
LaTeX(name) ==
    [cls |-> "LaTeX", name |-> name, executable |-> name, filename |-> <<>>,
     features |-> <<>>, spkg |-> latex_spkg, url |-> latex_url]

latex == LaTeX(<<"latex">>)
pdflatex == LaTeX(<<"pdflatex">>)
xelatex == LaTeX(<<"xelatex">>)
lualatex == LaTeX(<<"lualatex">>)

\* JoinFeature.__init__(name, [pdflatex()]) and StaticFile.__init__(name, filename)
TeXFile(name, filename) ==
    [cls |-> "TeXFile", name |-> name, executable |-> <<>>, filename |-> filename,
     features |-> <<pdflatex>>, spkg |-> latex_spkg, url |-> latex_url]

\* a variant that keeps the hyphens of the package name
LaTeXPackage_keep_hyphen(package_name) ==
    TeXFile(<<"latex", "_", "package", "_">> \o package_name,
            package_name \o <<".sty">>)

\* a variant that normalises the file name as well
LaTeXPackage_replace_filename(package_name) ==
    TeXFile(replace(<<"latex", "_", "package", "_">> \o package_name, "-", "_"),
            replace(package_name, "-", "_") \o <<".sty">>)

LaTeXPackage(package_name) ==
    TeXFile(replace(<<"latex", "_", "package", "_">> \o package_name, "-", "_"),
            package_name \o <<".sty">>)

all_features ==
    <<latex, pdflatex, xelatex, lualatex, LaTeXPackage(<<"t", "k", "z", "-", "g", "r", "a", "p", "h">>)>>

FeatureTestResult(feature, is_present, reason) ==
    [name |-> feature.name, present |-> is_present, reason |-> reason]

(***************************************************************************)
(* The external environment, as the code sees it.                          *)
(***************************************************************************)
kpsewhich == <<"kpsewhich">>

\* the exit status of /bin/sh when the command is not found
ShellNotFound == 127
\* the returncode subprocess.run reports for a child killed by SIGSEGV
KilledBySignal == -11

\* an external invocation, as the call's log records it
Ev(ev, arg, rc) == [ev |-> ev, arg |-> arg, rc |-> rc]

\* shutil.which(executable)
which(executable) == executable \in path

\* what kpsewhich prints for a file it resolves
KpseStdout(filename) == <<"/texmf/">> \o filename \o <<"\n">>

\* the exit status of `kpsewhich filename`, when kpsewhich can be started
KpseExit(filename) ==
    IF kpseCrash THEN KilledBySignal
    ELSE IF filename \in texmf THEN 0 ELSE 1

(***************************************************************************)
(* The outcome of a call: the exception it raised (if any), the value it   *)
(* returned (if any), the external invocations it made, and the cache it   *)
(* leaves.                                                                 *)
(***************************************************************************)
Return(val, log, c) == [exc |-> None, val |-> Some(val), log |-> log, cache |-> c]
Raise(e, log, c) == [exc |-> Some(e), val |-> None, log |-> log, cache |-> c]

FeatureNotPresentError(feature, reason) ==
    [type |-> "FeatureNotPresentError", name |-> feature.name, reason |-> reason]
FileNotFoundError(file) ==
    [type |-> "FileNotFoundError", name |-> file, reason |-> <<>>]
\* subprocess.run(..., text=True) decoding what the program wrote
UnicodeDecodeError(program) ==
    [type |-> "UnicodeDecodeError", name |-> program, reason |-> <<>>]

\* the reason a missing executable is reported with
NotOnPathReason(p) == <<"Executable ">> \o repr(p.executable) \o <<" ", "not found", " on PATH.">>

\* the reason absolute_filename gives for a file kpsewhich does not resolve
NotFoundByKpsewhich(filename) == repr(filename) \o <<" ", "not found", " by kpsewhich">>

(***************************************************************************)
(* LaTeX.is_functional                                                     *)
(***************************************************************************)
content ==
    <<"\\documentclass{article}", "\n", "\\begin{document}", "\n",
      "$\\alpha+2$", "\n", "\\end{document}">>

\* sage.misc.temporary_file.tmp_filename(ext='.tex'): the name of the n-th
\* scratch file
tmp_filename(n) == <<"/tmp", "/", "tmp_" \o ToString(n), ".tex">>

NonZeroReason(returncode) ==
    <<"Running latex on a sample file returned ", "non-zero exit status ">> \o str(returncode)

\* a variant that gives a failed run no reason
LaTeX_is_functional_no_reason(self, status, decodes, n) ==
    LET returncode == IF which(self.name) THEN status ELSE ShellNotFound
    IN  [exc |-> IF which(self.name) /\ ~ decodes
                 THEN Some(UnicodeDecodeError(self.name)) ELSE None,
         val |-> IF which(self.name) /\ ~ decodes THEN None
                 ELSE Some(FeatureTestResult(self, returncode = 0, None)),
         log |-> <<Ev("tmp_filename", tmp_filename(n), 0),
                   Ev("write", content, 0),
                   Ev("run", self.name \o <<" ", "-interaction=nonstopmode", " ">>
                             \o os_path_split(tmp_filename(n))[2], returncode)>>,
         created |-> {n}]

\* a variant that writes the sample document to a file of a fixed name
LaTeX_is_functional_fixed_name(self, status, decodes, n) ==
    LET base_filename_tex == <<"/tmp", "/", "sample", ".tex">>
        filename_tex == os_path_split(base_filename_tex)[2]
        returncode == IF which(self.name) THEN status ELSE ShellNotFound
    IN  [exc |-> IF which(self.name) /\ ~ decodes
                 THEN Some(UnicodeDecodeError(self.name)) ELSE None,
         val |-> IF which(self.name) /\ ~ decodes THEN None
                 ELSE IF returncode = 0
                 THEN Some(FeatureTestResult(self, TRUE, None))
                 ELSE Some(FeatureTestResult(self, FALSE, Some(NonZeroReason(returncode)))),
         log |-> <<Ev("tmp_filename", base_filename_tex, 0),
                   Ev("write", content, 0),
                   Ev("run", self.name \o <<" ", "-interaction=nonstopmode", " ">>
                             \o filename_tex, returncode)>>,
         created |-> {n}]

\* self.is_functional(), where `status` is the exit status the program ends
\* with if the shell finds it, `decodes` whether what it wrote is text in the
\* locale's encoding, and n numbers the scratch file
LaTeX_is_functional(self, status, decodes, n) ==
    LET base_filename_tex == tmp_filename(n)
        base == os_path_split(base_filename_tex)[1]
        filename_tex == os_path_split(base_filename_tex)[2]
        cmd == self.name \o <<" ", "-interaction=nonstopmode", " ">> \o filename_tex
        returncode == IF which(self.name) THEN status ELSE ShellNotFound
        log == <<Ev("tmp_filename", base_filename_tex, 0),
                 Ev("write", content, 0),
                 Ev("run", cmd, returncode)>>
    IN  IF which(self.name) /\ ~ decodes
        THEN \* run(..., capture_output=True, text=True) raises, line 71
             [exc |-> Some(UnicodeDecodeError(self.name)), val |-> None,
              log |-> log, created |-> {n}]
        ELSE [exc |-> None,
              val |-> IF returncode = 0
                      THEN Some(FeatureTestResult(self, TRUE, None))
                      ELSE Some(FeatureTestResult(self, FALSE, Some(NonZeroReason(returncode)))),
              log |-> log,
              created |-> {n}]

(***************************************************************************)
(* TeXFile.absolute_filename                                               *)
(***************************************************************************)
\* self.absolute_filename(): run(['kpsewhich', self.filename], check=True)
absolute_filename(self, c) ==
    IF ~ which(kpsewhich)
    THEN \* subprocess.run cannot start the program: not a CalledProcessError
         Raise(FileNotFoundError(kpsewhich), <<Ev("spawn", kpsewhich \o <<" ">> \o self.filename, 0)>>, c)
    ELSE LET returncode == KpseExit(self.filename)
         IN  IF kpseBytes
             THEN \* universal_newlines=True: the output is decoded before the
                  \* exit status is looked at; not a CalledProcessError
                  Raise(UnicodeDecodeError(kpsewhich),
                        <<Ev("kpsewhich", self.filename, returncode)>>, c)
             ELSE IF returncode = 0
                  THEN Return(strip(KpseStdout(self.filename)),
                              <<Ev("kpsewhich", self.filename, returncode)>>, c)
                  ELSE \* check=True raises CalledProcessError on a nonzero returncode
                       Raise(FeatureNotPresentError(self, NotFoundByKpsewhich(self.filename)),
                             <<Ev("kpsewhich", self.filename, returncode)>>, c)

(***************************************************************************)
(* is_present: the cache in front of the kind-specific existence checks.   *)
(***************************************************************************)
RECURSIVE Feature_is_present(_, _)

\* Executable: present iff the command is found on the search path
Executable_is_present(self, c) ==
    Return(IF which(self.executable)
           THEN FeatureTestResult(self, TRUE, None)
           ELSE FeatureTestResult(self, FALSE, Some(NotOnPathReason(self))),
           <<Ev("which", self.executable, 0)>>, c)

\* StaticFile: present iff absolute_filename() returns; the distinguished
\* not-present error becomes a negative result with the error's reason
StaticFile_is_present(self, c) ==
    LET r == absolute_filename(self, c)
    IN  IF r.exc = None
        THEN Return(FeatureTestResult(self, TRUE, None), r.log, r.cache)
        ELSE IF TheValue(r.exc).type = "FeatureNotPresentError"
             THEN Return(FeatureTestResult(self, FALSE, Some(TheValue(r.exc).reason)),
                         r.log, r.cache)
             ELSE r

RECURSIVE Feature__is_present(_, _)

\* a variant that evaluates every member anew, past the cache
RECURSIVE JoinLoop_uncached(_, _, _, _)
JoinLoop_uncached(self, features, log, c) ==
    IF features = <<>>
    THEN Return(FeatureTestResult(self, TRUE, None), log, c)
    ELSE LET test == Feature__is_present(Head(features), c)
         IN  IF test.exc # None
             THEN Raise(TheValue(test.exc), log \o test.log, test.cache)
             ELSE IF ~ TheValue(test.val).present
                  THEN Return(FeatureTestResult(self, FALSE, TheValue(test.val).reason),
                              log \o test.log, test.cache)
                  ELSE JoinLoop_uncached(self, Tail(features), log \o test.log, test.cache)

\* a variant that hands on the absent member's own result, subject included
RECURSIVE JoinLoop_member_result(_, _, _, _)
JoinLoop_member_result(self, features, log, c) ==
    IF features = <<>>
    THEN Return(FeatureTestResult(self, TRUE, None), log, c)
    ELSE LET test == Feature_is_present(Head(features), c)
         IN  IF test.exc # None
             THEN Raise(TheValue(test.exc), log \o test.log, test.cache)
             ELSE IF ~ TheValue(test.val).present
                  THEN Return(TheValue(test.val), log \o test.log, test.cache)
                  ELSE JoinLoop_member_result(self, Tail(features), log \o test.log, test.cache)

\* JoinFeature: the members in declared order, stopping at the first that
\* reports absent: the composite's result is absent, with that member's
\* reason unmodified
RECURSIVE JoinLoop(_, _, _, _)
JoinLoop(self, features, log, c) ==
    IF features = <<>>
    THEN Return(FeatureTestResult(self, TRUE, None), log, c)
    ELSE LET test == Feature_is_present(Head(features), c)
         IN  IF test.exc # None
             THEN Raise(TheValue(test.exc), log \o test.log, test.cache)
             ELSE IF ~ TheValue(test.val).present
                  THEN Return(FeatureTestResult(self, FALSE, TheValue(test.val).reason),
                              log \o test.log, test.cache)
                  ELSE JoinLoop(self, Tail(features), log \o test.log, test.cache)

JoinFeature_is_present(self, c) == JoinLoop(self, self.features, <<>>, c)

\* a variant that does not stop at an absent member
TeXFile_is_present_no_short_circuit(self, c) ==
    LET test == JoinFeature_is_present(self, c)
        file == StaticFile_is_present(self, test.cache)
    IN  IF test.exc # None \/ ~ TheValue(test.val).present
        THEN [test EXCEPT !.log = test.log \o file.log]
        ELSE [file EXCEPT !.log = test.log \o file.log]

\* a variant that explains the member's reason in a reason of its own
TeXFile_is_present_merged_reason(self, c) ==
    LET test == JoinFeature_is_present(self, c)
    IN  IF test.exc # None
        THEN test
        ELSE IF ~ TheValue(test.val).present
             THEN [test EXCEPT !.val =
                      Some(FeatureTestResult(self, FALSE,
                               Some(<<"missing member: ">> \o TheValue(TheValue(test.val).reason))))]
             ELSE LET file == StaticFile_is_present(self, test.cache)
                  IN  [file EXCEPT !.log = test.log \o file.log]

\* TeXFile._is_present
TeXFile_is_present(self, c) ==
    LET test == JoinFeature_is_present(self, c)
    IN  IF test.exc # None
        THEN test
        ELSE IF ~ TheValue(test.val).present
             THEN test
             ELSE LET file == StaticFile_is_present(self, test.cache)
                  IN  [file EXCEPT !.log = test.log \o file.log]

\* self._is_present(), by the class of self
Feature__is_present(self, c) ==
    IF self.cls = "LaTeX" THEN Executable_is_present(self, c)
    ELSE TeXFile_is_present(self, c)

\* the store of a result in the cache, under the name of the probe
CacheStore(c, self, res) == [c EXCEPT ![self.name] = Some(res)]

\* a variant that evaluates on every call and stores what it finds
Feature_is_present_refresh(self, c) ==
    LET res == Feature__is_present(self, c)
    IN  IF res.exc # None
        THEN res
        ELSE [res EXCEPT !.cache = [res.cache EXCEPT ![self.name] = res.val]]

\* Feature.is_present: the cached result, or the evaluated one, stored
Feature_is_present(self, c) ==
    IF c[self.name] # None
    THEN Return(TheValue(c[self.name]), <<>>, c)
    ELSE LET res == Feature__is_present(self, c)
         IN  IF res.exc # None
             THEN res
             ELSE [res EXCEPT !.cache = CacheStore(res.cache, self, TheValue(res.val))]

(***************************************************************************)
(* The calls a client makes.  A target is the expression that constructs   *)
(* the probe: the class and its arguments.                                 *)
(***************************************************************************)
PackageNames == {<<"t", "-", "g">>, <<"t", "_", "g">>}
\* a TeX file probed directly, under a name and a file name of its own choice
TeXFileArgs == {<<<<"latex", "_", "package", "_", "t", "_", "g">>, <<"t", "_", "g", ".sty">>>>}

Target(cls, args) == [cls |-> cls, args |-> args]

LaTeXTargets == {Target(c, <<>>) : c \in {"latex", "pdflatex"}}
PackageTargets == {Target("LaTeXPackage", <<n>>) : n \in PackageNames}
TeXFileTargets == {Target("TeXFile", a) : a \in TeXFileArgs}
FileTargets == PackageTargets \cup TeXFileTargets
Targets == LaTeXTargets \cup FileTargets

\* the probe a target constructs
Construct(t) ==
    CASE t.cls = "latex" -> latex
      [] t.cls = "pdflatex" -> pdflatex
      [] t.cls = "xelatex" -> xelatex
      [] t.cls = "lualatex" -> lualatex
      [] t.cls = "LaTeXPackage" -> LaTeXPackage(t.args[1])
      [] t.cls = "TeXFile" -> TeXFile(t.args[1], t.args[2])

Probes == {Construct(t) : t \in Targets}
Names == {p.name : p \in Probes}
Filenames == {Construct(t).filename : t \in FileTargets}
Executables == {Construct(t).executable : t \in LaTeXTargets} \cup {kpsewhich}
ExitStatuses == 0..MaxExit

Threads == {"t1", "t2"}

IdleThread ==
    [pc |-> "idle", target |-> Target("none", <<>>), res |-> None, plan |-> None]

Idle ==
    [op |-> "idle", target |-> Target("none", <<>>), hit |-> FALSE,
     exc |-> None, val |-> None, log |-> <<>>]

Init ==
    /\ path \in SUBSET Executables
    /\ texmf \in SUBSET Filenames
    /\ kpseCrash \in BOOLEAN
    /\ kpseBytes \in BOOLEAN
    /\ cache = [n \in Names |-> None]
    /\ tmpfiles = {}
    /\ last = Idle
    /\ thr = [th \in Threads |-> IdleThread]
    /\ finished = {}

\* the external environment changes: a program is installed or removed
ChangePath(e) ==
    /\ path' = IF e \in path THEN path \ {e} ELSE path \cup {e}
    /\ last' = Idle
    /\ UNCHANGED <<texmf, kpseCrash, kpseBytes, cache, tmpfiles, thr, finished>>

\* a file is installed in, or removed from, the TeX tree
ChangeTexmf(f) ==
    /\ texmf' = IF f \in texmf THEN texmf \ {f} ELSE texmf \cup {f}
    /\ last' = Idle
    /\ UNCHANGED <<path, kpseCrash, kpseBytes, cache, tmpfiles, thr, finished>>

\* kpsewhich starts, or stops, ending abnormally
ChangeCrash ==
    /\ kpseCrash' = ~ kpseCrash
    /\ last' = Idle
    /\ UNCHANGED <<path, texmf, kpseBytes, cache, tmpfiles, thr, finished>>

\* kpsewhich starts, or stops, writing bytes that are no text in the locale
ChangeBytes ==
    /\ kpseBytes' = ~ kpseBytes
    /\ last' = Idle
    /\ UNCHANGED <<path, texmf, kpseCrash, cache, tmpfiles, thr, finished>>

\* Construct(t).is_present()
CallIsPresent(t) ==
    LET self == Construct(t)
        r == Feature_is_present(self, cache)
    IN  /\ cache' = r.cache
        /\ last' = [op |-> "is_present", target |-> t, hit |-> cache[self.name] # None,
                    exc |-> r.exc, val |-> r.val, log |-> r.log]
        /\ UNCHANGED <<path, texmf, kpseCrash, kpseBytes, tmpfiles, thr, finished>>

\* Construct(t).is_functional(), the program ending with `status` if it
\* runs, having written text (`decodes`) or other bytes
CallIsFunctional(t, status, decodes, n) ==
    /\ n \notin tmpfiles
    /\ LET self == Construct(t)
           r == LaTeX_is_functional(self, status, decodes, n)
       IN  /\ tmpfiles' = tmpfiles \cup r.created
           /\ last' = [op |-> "is_functional", target |-> t, hit |-> FALSE,
                       exc |-> r.exc, val |-> r.val, log |-> r.log]
    /\ UNCHANGED <<path, texmf, kpseCrash, kpseBytes, cache, thr, finished>>

\* Construct(t).absolute_filename()
CallAbsoluteFilename(t) ==
    LET self == Construct(t)
        r == absolute_filename(self, cache)
    IN  /\ last' = [op |-> "absolute_filename", target |-> t, hit |-> FALSE,
                    exc |-> r.exc, val |-> r.val, log |-> r.log]
        /\ UNCHANGED <<path, texmf, kpseCrash, kpseBytes, cache, tmpfiles, thr, finished>>

Next ==
    \/ \E e \in Executables : ChangePath(e)
    \/ \E f \in Filenames : ChangeTexmf(f)
    \/ ChangeCrash
    \/ ChangeBytes
    \/ \E t \in Targets : CallIsPresent(t)
    \/ \E t \in LaTeXTargets, status \in ExitStatuses, decodes \in BOOLEAN, n \in 1..MaxTmp :
           CallIsFunctional(t, status, decodes, n)
    \/ \E t \in FileTargets : CallAbsoluteFilename(t)

Spec == Init /\ [][Next]_vars

(***************************************************************************)
(* A concurrent client: threads call is_present() and is_functional() at   *)
(* the same time, in a fixed external environment.  A step of a thread is  *)
(* one read or write of the cache, or one external invocation; what a      *)
(* thread computes between them is local to it.                            *)
(***************************************************************************)
Env == <<path, texmf, kpseCrash, kpseBytes>>

SetThread(th, rec) == thr' = [thr EXCEPT ![th] = rec]
Evaluated(self, res) == [probe |-> self, res |-> res]

\* th calls Construct(t).is_present(): Feature.is_present reads the cache
T_CallIsPresent(th, t) ==
    /\ thr[th].pc = "idle"
    /\ LET self == Construct(t)
       IN  IF cache[self.name] # None
           THEN UNCHANGED thr
           ELSE SetThread(th, [IdleThread EXCEPT !.pc = "eval", !.target = t])
    /\ UNCHANGED <<Env, cache, tmpfiles, last, finished>>

\* Executable._is_present of the probe th evaluates: the search-path lookup
T_Lookup(th) ==
    /\ thr[th].pc = "eval"
    /\ thr[th].target \in LaTeXTargets
    /\ LET self == Construct(thr[th].target)
           res == TheValue(Executable_is_present(self, cache).val)
       IN  /\ SetThread(th, [thr[th] EXCEPT !.pc = "store", !.res = Some(res)])
           /\ finished' = finished \cup {Evaluated(self, res)}
    /\ UNCHANGED <<Env, cache, tmpfiles, last>>

\* TeXFile._is_present, line 223: the member's is_present() reads the cache;
\* lines 224-225 when the cached result is absent: the probe's result is
\* absent, with the member's reason
T_MemberCheck(th) ==
    /\ thr[th].pc = "eval"
    /\ thr[th].target \in FileTargets
    /\ LET self == Construct(thr[th].target)
           member == self.features[1]
       IN  IF cache[member.name] = None
           THEN /\ SetThread(th, [thr[th] EXCEPT !.pc = "member_eval"])
                /\ UNCHANGED finished
           ELSE IF TheValue(cache[member.name]).present
                THEN /\ SetThread(th, [thr[th] EXCEPT !.pc = "resolve"])
                     /\ UNCHANGED finished
                ELSE LET test == FeatureTestResult(self, FALSE, TheValue(cache[member.name]).reason)
                     IN  /\ SetThread(th, [thr[th] EXCEPT !.pc = "store", !.res = Some(test)])
                         /\ finished' = finished \cup {Evaluated(self, test)}
    /\ UNCHANGED <<Env, cache, tmpfiles, last>>

\* the member's existence check: the search-path lookup of pdflatex
T_MemberLookup(th) ==
    /\ thr[th].pc = "member_eval"
    /\ LET member == Construct(thr[th].target).features[1]
           res == TheValue(Executable_is_present(member, cache).val)
       IN  /\ SetThread(th, [thr[th] EXCEPT !.pc = "member_store", !.res = Some(res)])
           /\ finished' = finished \cup {Evaluated(member, res)}
    /\ UNCHANGED <<Env, cache, tmpfiles, last>>

\* the member's result is stored; lines 224-225 when it is absent
T_MemberStore(th) ==
    /\ thr[th].pc = "member_store"
    /\ LET self == Construct(thr[th].target)
           member == self.features[1]
           res == TheValue(thr[th].res)
       IN  /\ cache' = CacheStore(cache, member, res)
           /\ IF res.present
              THEN /\ SetThread(th, [thr[th] EXCEPT !.pc = "resolve", !.res = None])
                   /\ UNCHANGED finished
              ELSE LET test == FeatureTestResult(self, FALSE, res.reason)
                   IN  /\ SetThread(th, [thr[th] EXCEPT !.pc = "store", !.res = Some(test)])
                       /\ finished' = finished \cup {Evaluated(self, test)}
    /\ UNCHANGED <<Env, tmpfiles, last>>

\* TeXFile._is_present, line 226: StaticFile._is_present runs kpsewhich; an
\* exception other than the not-present error ends the call, nothing stored
T_Resolve(th) ==
    /\ thr[th].pc = "resolve"
    /\ LET self == Construct(thr[th].target)
           r == StaticFile_is_present(self, cache)
       IN  IF r.exc # None
           THEN /\ SetThread(th, IdleThread)
                /\ UNCHANGED finished
           ELSE /\ SetThread(th, [thr[th] EXCEPT !.pc = "store", !.res = r.val])
                /\ finished' = finished \cup {Evaluated(self, TheValue(r.val))}
    /\ UNCHANGED <<Env, cache, tmpfiles, last>>

\* Feature.is_present stores the result and returns it
T_Store(th) ==
    /\ thr[th].pc = "store"
    /\ cache' = CacheStore(cache, Construct(thr[th].target), TheValue(thr[th].res))
    /\ SetThread(th, IdleThread)
    /\ UNCHANGED <<Env, tmpfiles, last, finished>>

\* th calls Construct(t).is_functional(): lines 59-61, tmp_filename creates
\* a fresh scratch file, the n-th, under a name no existing file has; nothing
\* is written to it and nothing run yet
T_CallIsFunctional(th, t, n) ==
    /\ thr[th].pc = "idle"
    /\ n \notin tmpfiles
    /\ tmpfiles' = tmpfiles \cup {n}
    /\ SetThread(th, [IdleThread EXCEPT
                          !.pc = "write", !.target = t,
                          !.plan = Some([n |-> n, scratch |-> tmp_filename(n),
                                         out |-> None])])
    /\ UNCHANGED <<Env, cache, last, finished>>

\* lines 62-63: the scratch file is opened and the sample document written
T_Write(th) ==
    /\ thr[th].pc = "write"
    /\ SetThread(th, [thr[th] EXCEPT !.pc = "run"])
    /\ UNCHANGED <<Env, cache, tmpfiles, last, finished>>

\* lines 65-71: the program is run on the scratch file, ending with `status`
\* if the shell finds it, having written text (`decodes`) or other bytes
T_Run(th, status, decodes) ==
    /\ thr[th].pc = "run"
    /\ LET self == Construct(thr[th].target)
           plan == TheValue(thr[th].plan)
           r == LaTeX_is_functional(self, status, decodes, plan.n)
       IN  SetThread(th, [thr[th] EXCEPT !.pc = "return",
                                         !.plan = Some([plan EXCEPT !.out = Some(r)])])
    /\ UNCHANGED <<Env, cache, tmpfiles, last, finished>>

\* lines 74-79: the result is returned to the caller, or the exception of
\* line 71 reaches it; the scratch file stays
T_Return(th) ==
    /\ thr[th].pc = "return"
    /\ SetThread(th, IdleThread)
    /\ UNCHANGED <<Env, cache, tmpfiles, last, finished>>

NextConc ==
    \E th \in Threads :
        \/ \E t \in Targets : T_CallIsPresent(th, t)
        \/ T_Lookup(th)
        \/ T_MemberCheck(th)
        \/ T_MemberLookup(th)
        \/ T_MemberStore(th)
        \/ T_Resolve(th)
        \/ T_Store(th)
        \/ \E t \in LaTeXTargets, n \in 1..MaxChecks : T_CallIsFunctional(th, t, n)
        \/ T_Write(th)
        \/ \E status \in ExitStatuses, decodes \in BOOLEAN : T_Run(th, status, decodes)
        \/ T_Return(th)

\* the environments of the concurrent client: a kpsewhich that runs to its
\* end with output that decodes.  To the cache a killed kpsewhich is one that
\* exits nonzero, and one whose output does not decode is one that cannot be
\* started (the evaluation raises, nothing is stored); PATH and the files
\* kpsewhich knows are free
InitConc == Init /\ ~ kpseCrash /\ ~ kpseBytes

SpecConc == InitConc /\ [][NextConc]_vars

(***************************************************************************)
(* Properties.                                                             *)
(***************************************************************************)
LastProbe == Construct(last.target)
LastResult == TheValue(last.val)
LastReturned == last.exc = None /\ last.val # None
LastEvents(kinds) == {i \in DOMAIN last.log : last.log[i].ev \in kinds}

\* what pdflatex().is_present() reports in this state
MemberReport == TheValue(Feature_is_present(pdflatex, cache).val)

\* kpsewhich, run on the file name, exits with status zero
ResolverExitsZero(filename) == which(kpsewhich) /\ KpseExit(filename) = 0

\* name is 'latex_package_' followed by id with every '-' replaced by '_'
DerivedName(name, id) ==
    LET prefix == <<"latex", "_", "package", "_">>
    IN  /\ Len(name) = Len(prefix) + Len(id)
        /\ SubSeq(name, 1, Len(prefix)) = prefix
        /\ \A i \in 1..Len(id) :
               name[Len(prefix) + i] = IF id[i] = "-" THEN "_" ELSE id[i]

\* v is text t without the whitespace around it
Stripped(v, t) ==
    /\ v # <<>> => Head(v) \notin Whitespace /\ v[Len(v)] \notin Whitespace
    /\ \E i \in 1..(Len(t) + 1) :
           /\ i + Len(v) - 1 <= Len(t)
           /\ SubSeq(t, i, i + Len(v) - 1) = v
           /\ \A j \in 1..Len(t) : (j < i \/ j > i + Len(v) - 1) => t[j] \in Whitespace

\* C1: when is_present() is called on a probe twice in a row, with no change
\* of the environment between the calls, the second call returns the result
\* the first returned (name, verdict and reason) and makes no external
\* invocation: no search-path lookup, no kpsewhich run, no latex run.
C1_SecondCallIsCacheHit ==
    [][(/\ last.op = "is_present"
        /\ last'.op = "is_present"
        /\ Construct(last'.target) = Construct(last.target))
       => (/\ last'.exc = None
           /\ last'.val # None
           /\ last'.val = last.val
           /\ last'.log = <<>>)]_vars

\* C2: whenever the member probe (pdflatex) reports absent, is_present() on a
\* TeXFile/LaTeXPackage probe returns an absent result and the call runs no
\* kpsewhich, in every reachable state.
C2_AbsentMemberGatesResolver ==
    (/\ last.op = "is_present" /\ last.target \in FileTargets
     /\ ~ MemberReport.present)
    => (/\ LastReturned
        /\ ~ LastResult.present
        /\ LastEvents({"kpsewhich", "spawn"}) = {})

C2_Witness ==
    /\ last.op = "is_present" /\ last.target \in FileTargets /\ ~ last.hit
    /\ ~ MemberReport.present
    /\ which(kpsewhich) /\ LastProbe.filename \in texmf /\ ~ kpseCrash
    /\ LastReturned /\ ~ LastResult.present

\* C3: an evaluation of is_present() on a TeXFile/LaTeXPackage probe (a call
\* that does not find the probe in the cache) reports present if and only if
\* pdflatex reports present and kpsewhich, run on the probe's file name, exits
\* with status zero; a present result carries no reason.
C3_PresentIffMemberAndResolver ==
    (last.op = "is_present" /\ last.target \in FileTargets /\ ~ last.hit)
    => /\ (LastReturned /\ LastResult.present)
            <=> (/\ MemberReport.present
                 /\ ResolverExitsZero(LastProbe.filename)
                 /\ \E i \in LastEvents({"kpsewhich"}) :
                        last.log[i].arg = LastProbe.filename /\ last.log[i].rc = 0)
       /\ (LastReturned /\ LastResult.present) => LastResult.reason = None

\* C4: is_functional() on a LaTeX probe whose executable is on the search path
\* reports present exactly when the run of the program exits with status zero;
\* on a nonzero status the result is absent, with a reason that holds the
\* status and is not the reason of an executable that is not found.
C4_FunctionalIffExitZero ==
    (last.op = "is_functional" /\ which(LastProbe.executable))
    => /\ LastReturned
       /\ LastEvents({"run"}) # {}
       /\ \A i \in LastEvents({"run"}) :
              /\ LastResult.present <=> last.log[i].rc = 0
              /\ last.log[i].rc # 0 =>
                     /\ LastResult.reason # None
                     /\ Contains(TheValue(LastResult.reason), str(last.log[i].rc))
                     /\ TheValue(LastResult.reason) # NotOnPathReason(LastProbe)

\* C5: is_functional() creates its scratch file and runs the program only when
\* the executable is on the search path, never when it is absent.
C5_FunctionalCheckOnlyWhenPresent ==
    (last.op = "is_functional" /\ ~ which(LastProbe.executable))
    => LastEvents({"tmp_filename", "write", "run"}) = {}

\* C6: when kpsewhich exits with status zero, absolute_filename() returns its
\* standard output without the surrounding whitespace; when it exits nonzero,
\* absolute_filename() raises FeatureNotPresentError, whose reason names the
\* file, contains "not found", and is the reason the negative is_present()
\* result of the probe's file check carries.
C6_PathOrNotPresentError ==
    (last.op = "absolute_filename" /\ which(kpsewhich))
    => LET filename == LastProbe.filename
       IN  /\ KpseExit(filename) = 0 =>
                 /\ LastReturned
                 /\ Stripped(TheValue(last.val), KpseStdout(filename))
           /\ KpseExit(filename) # 0 =>
                 /\ last.exc # None
                 /\ TheValue(last.exc).type = "FeatureNotPresentError"
                 /\ Contains(TheValue(last.exc).reason, filename)
                 /\ Contains(TheValue(last.exc).reason, <<"not found">>)
                 /\ LET r == StaticFile_is_present(LastProbe, cache)
                    IN  /\ r.exc = None
                        /\ ~ TheValue(r.val).present
                        /\ TheValue(r.val).reason = Some(TheValue(last.exc).reason)

\* C7: is_present() and is_functional() never raise, whatever the state of the
\* external environment.
C7_NeverRaises ==
    last.op \in {"is_present", "is_functional"} => last.exc = None

\* a result has a non-empty reason when absent and none when present
ReasonMatchesVerdict(r) ==
    IF r.present THEN r.reason = None
    ELSE r.reason # None /\ Len(TheValue(r.reason)) > 0

\* C8: every result is_present() or is_functional() returns, and every cached
\* result, carries a non-empty reason when its verdict is absent and no
\* reason when its verdict is present.
C8_NegativeHasReason ==
    /\ (last.op \in {"is_present", "is_functional"} /\ LastReturned)
           => ReasonMatchesVerdict(LastResult)
    /\ \A n \in Names : cache[n] # None => ReasonMatchesVerdict(TheValue(cache[n]))

C8_Witness ==
    /\ last.op = "is_functional" /\ LastReturned
    /\ ~ LastResult.present
    /\ LastResult.reason # None

\* C9: when LaTeXPackage is constructed with the same package identifier for
\* two is_present() calls in a row, both probes have the name 'latex_package_'
\* followed by the identifier with every '-' replaced by '_', both have the
\* file name identifier + '.sty', and the second call returns the first call's
\* result from the one cache entry they share.
C9_SameIdentifierSameProbe ==
    [][(/\ last.op = "is_present" /\ last.target \in PackageTargets /\ LastReturned
        /\ last'.op = "is_present" /\ last'.target \in PackageTargets
        /\ last'.target.args = last.target.args)
       => LET id == last.target.args[1]
              first == Construct(last.target)
              second == Construct(last'.target)
          IN  /\ DerivedName(first.name, id) /\ DerivedName(second.name, id)
              /\ first.filename = id \o <<".sty">>
              /\ second.filename = id \o <<".sty">>
              /\ last'.hit
              /\ last'.val = last.val]_vars

C9_Witness ==
    /\ last.op = "is_present" /\ last.target \in PackageTargets
    /\ \E i \in 1..Len(last.target.args[1]) : last.target.args[1][i] = "-"
    /\ last.hit /\ LastReturned /\ LastResult.present

\* C10: any LaTeXPackage probe with the same derived name as the probe that
\* is_present() was just called on has the same file name, and the result
\* returned is the verdict of that other probe as well.
C10_NameIdentifiesProbe ==
    (last.op = "is_present" /\ last.target \in PackageTargets /\ LastReturned)
    => \A t \in PackageTargets :
           Construct(t).name = LastProbe.name =>
               /\ Construct(t).filename = LastProbe.filename
               /\ LastResult.present
                      <=> (MemberReport.present /\ ResolverExitsZero(Construct(t).filename))

\* C12: a result stored in the cache is never removed or replaced, and every
\* later is_present() on the probe returns it, also after the external
\* environment has changed (the executable or the file appeared or
\* disappeared).
C12_CachedResultIsKept ==
    [][\A n \in Names :
           cache[n] # None =>
               /\ cache'[n] = cache[n]
               /\ (last'.op = "is_present" /\ Construct(last'.target).name = n)
                      => (last'.exc = None /\ last'.val = cache[n])]_vars

C12_Witness ==
    /\ last.op = "is_present" /\ last.hit /\ LastReturned
    /\ last.target \in LaTeXTargets
    /\ LastResult.present
    /\ ~ which(LastProbe.executable)

\* C13: when a TeXFile/LaTeXPackage probe reports absent because pdflatex is
\* absent, the reason of its result is exactly the reason pdflatex reports,
\* with no other text.
C13_ReasonOfFirstFailingMember ==
    (/\ last.op = "is_present" /\ last.target \in FileTargets
     /\ ~ MemberReport.present)
    => (/\ LastReturned
        /\ ~ LastResult.present
        /\ LastResult.reason = MemberReport.reason)

C13_Witness ==
    /\ last.op = "is_present" /\ last.target \in FileTargets /\ ~ last.hit
    /\ ~ MemberReport.present
    /\ LastReturned
    /\ LastResult.reason = Some(NotOnPathReason(pdflatex))

\* C14: the result is_present() or is_functional() returns names the probe it
\* was called on, also when a TeXFile/LaTeXPackage probe is absent because
\* pdflatex is.
C14_ResultNamesItsProbe ==
    (last.op \in {"is_present", "is_functional"} /\ LastReturned)
    => LastResult.name = LastProbe.name

C14_Witness ==
    /\ last.op = "is_present" /\ last.target \in FileTargets /\ ~ last.hit
    /\ ~ MemberReport.present
    /\ LastReturned /\ ~ LastResult.present
    /\ LastResult.name = LastProbe.name
    /\ LastResult.name # pdflatex.name

\* C15: when is_functional() has ended, by returning a result or on failing
\* partway, the scratch file it created exists no longer.
C15_ScratchFileRemoved ==
    last.op = "is_functional"
    => \A n \in tmpfiles :
           \A i \in LastEvents({"tmp_filename"}) : last.log[i].arg # tmp_filename(n)

\* C16: an is_present() on a TeXFile/LaTeXPackage probe leaves a result for
\* pdflatex in the cache, and once pdflatex has a cached result no
\* is_present() call, on pdflatex or on a file probe with that member, looks
\* pdflatex up on the search path again.
C16_MemberCachedToo ==
    [][/\ (last'.op = "is_present" /\ last'.target \in FileTargets)
           => cache'[pdflatex.name] # None
       /\ (cache[pdflatex.name] # None /\ last'.op = "is_present")
           => \A i \in DOMAIN last'.log :
                  ~ (last'.log[i].ev = "which" /\ last'.log[i].arg = pdflatex.executable)]_vars

C16_Witness ==
    /\ last.op = "is_present" /\ last.target \in FileTargets /\ ~ last.hit
    /\ LastReturned /\ LastResult.present
    /\ LastEvents({"which"}) = {}
    /\ LastEvents({"kpsewhich"}) # {}

\* the probe whose result thread th is about to store
StoringProbe(th) ==
    IF thr[th].pc = "member_store"
    THEN Construct(thr[th].target).features[1]
    ELSE Construct(thr[th].target)

\* the entry the cache holds for a probe is the complete result of a finished
\* evaluation of that probe
C11_EntriesAreComplete ==
    \A p \in Probes :
        cache[p.name] # None => Evaluated(p, TheValue(cache[p.name])) \in finished

\* a store writes the whole result of the storing thread, and changes the
\* entry of no probe but the one the thread evaluated
C11_StoresDoNotInterfere ==
    \A p \in Probes :
        cache'[p.name] # cache[p.name] =>
            \A th \in Threads :
                (thr[th].pc \in {"store", "member_store"} /\ thr'[th] # thr[th])
                => (StoringProbe(th) = p /\ cache'[p.name] = thr[th].res)

\* C11: with threads evaluating probes at the same time, first evaluations of
\* the same probe among them, every entry of the cache for a probe is the
\* complete result of a finished evaluation of that probe, and a store
\* changes the entry of the probe stored and of no other probe; the same
\* external check may be made more than once.
C11_CacheNeverCorrupted ==
    []C11_EntriesAreComplete /\ [][C11_StoresDoNotInterfere]_vars

\* a functional check of thread th is between its call and its return
InFlight(th) == thr[th].pc \in {"write", "run", "return"}
\* the scratch name tmp_filename gave the check of thread th
ScratchOf(th) == TheValue(thr[th].plan).scratch
\* the check of thread th has run the program
HasRun(th) == thr[th].pc = "return"
\* whether the command the check of thread th ran names file f, in its directory
RunsOn(th, f) ==
    LET cmd == TheValue(TheValue(thr[th].plan).out).log[3].arg
        filename_tex == os_path_split(f)[2]
    IN  /\ Len(cmd) >= Len(filename_tex)
        /\ SubSeq(cmd, Len(cmd) - Len(filename_tex) + 1, Len(cmd)) = filename_tex

\* C17: of the functional checks in flight at the same time, no two have the
\* same scratch file, each runs the program on the file it created, and none
\* runs it on the file of another.
C17_ScratchFilesNotShared ==
    \A t1 \in Threads :
        InFlight(t1) =>
            /\ HasRun(t1) => RunsOn(t1, ScratchOf(t1))
            /\ \A t2 \in Threads \ {t1} :
                   InFlight(t2) =>
                       /\ ScratchOf(t1) # ScratchOf(t2)
                       /\ HasRun(t1) => ~ RunsOn(t1, ScratchOf(t2))

C17_Witness ==
    \E t1, t2 \in Threads :
        /\ t1 # t2
        /\ HasRun(t1) /\ HasRun(t2)
        /\ thr[t1].target = thr[t2].target
        /\ {TheValue(thr[t1].plan).n, TheValue(thr[t2].plan).n} \subseteq tmpfiles

====
